---- MODULE Spec2Model ----
(***************************************************************************)
(* A model of SETSv0.2.1.py: the fragment extractor, the cache-backed      *)
(* retrying translation client, the two-level thread-pool scheduler, the   *)
(* statistics counters and the replacement engine.                         *)
(*                                                                         *)
(* Text is a sequence of tokens.  A token is a piece of text that the      *)
(* regular expressions of the program never split: a whole opening or      *)
(* closing tag, one run of whitespace, or one word.  The regular           *)
(* expressions are modelled by matchers over token sequences that follow   *)
(* Python's leftmost, non-overlapping, non-greedy matching.                *)
(***************************************************************************)
EXTENDS Integers, Sequences, FiniteSets, TLC

\* ------------------------------------------------------------------ tokens

\* One run of whitespace (what \s* and str.strip() consume).
WS == " "

\* <data name="..." ...> opening tags (the name attribute differs).
DataOpenToks == {"<data name=\"a\">", "<data name=\"b\">"}

ValueOpen == "<value>"

ValueClose == "</value>"

DataClose == "</data>"

\* The element names of the scalar alternative, as they may be spelled in a
\* file; "tooltip" is a spelling that only re.IGNORECASE accepts.
ScalarNames == {"DisplayName", "Description", "Tooltip", "tooltip"}

\* re.IGNORECASE: two spellings match when they fold to the same name.
Fold(n) == IF n = "tooltip" THEN "Tooltip" ELSE n

OpenTok(n) ==
    CASE n = "DisplayName" -> "<DisplayName>"
      [] n = "Description" -> "<Description>"
      [] n = "Tooltip" -> "<Tooltip>"
      [] n = "tooltip" -> "<tooltip>"
      [] OTHER -> "<?>"

CloseTok(n) ==
    CASE n = "DisplayName" -> "</DisplayName>"
      [] n = "Description" -> "</Description>"
      [] n = "Tooltip" -> "</Tooltip>"
      [] n = "tooltip" -> "</tooltip>"
      [] OTHER -> "</?>"

IsOpenTok(t) == \E n \in ScalarNames : t = OpenTok(n)

IsCloseTok(t) == \E n \in ScalarNames : t = CloseTok(n)

OpenName(t) == CHOOSE n \in ScalarNames : t = OpenTok(n)

CloseName(t) == CHOOSE n \in ScalarNames : t = CloseTok(n)

\* Words of the source language, one of them a single character and one of
\* them a reserved keyword.
SourceWords == {"Stone", "Rock", "x", "Item"}

\* Words written in the target script (characters in U+4E00..U+9FFF).
ChineseWords == {"ZH_shitou", "ZH_yanshi", "ZH_ziyuan"}

\* A text holding a backslash escape that re's replacement templates reject
\* (such as \q): re.sub raises re.error when given it as the replacement.
BadEscape == "\\q"

\* What the service may put in front of, or around, its answer and
\* clean_translation removes: a category label echo and a stray tag.
LabelEcho == "ZH_miaoshu:"

StrayTag == "<ZH_zhi>"

\* Number of characters of a token, as far as len(text) < 2 can tell.
CharLen(t) == IF t \in {WS, "x"} THEN 1 ELSE 2

RECURSIVE TextLen(_)
TextLen(s) == IF s = <<>> THEN 0 ELSE CharLen(Head(s)) + TextLen(Tail(s))

\* str.strip(): leading and trailing whitespace removed.
RECURSIVE LStrip(_)
LStrip(s) == IF s # <<>> /\ Head(s) = WS THEN LStrip(Tail(s)) ELSE s

RECURSIVE RStrip(_)
RStrip(s) ==
    IF s # <<>> /\ s[Len(s)] = WS THEN RStrip(SubSeq(s, 1, Len(s) - 1)) ELSE s

Strip(s) == RStrip(LStrip(s))

\* The position after a greedy \s* that starts at position i.
RECURSIVE SkipWs(_, _)
SkipWs(c, i) == IF i <= Len(c) /\ c[i] = WS THEN SkipWs(c, i + 1) ELSE i

\* ------------------------------------------------------------- extraction

SKIP_KEYWORDS == {"DisplayName", "Item", "Description", "Group"}

\* kw in tok, for the tokens of this model: a word is its own only
\* substring; a tag holds the element name it is spelled with.
TokContains(t, kw) ==
    \/ t = kw
    \/ kw \in ScalarNames /\ t \in {OpenTok(kw), CloseTok(kw)}

HasSkipKeyword(text) ==
    \E i \in 1..Len(text) : \E kw \in SKIP_KEYWORDS : TokContains(text[i], kw)

is_chinese(text) ==
    \E i \in 1..Len(text) : text[i] \in ChineseWords \cup {LabelEcho, StrayTag}

\* The absent context of a scalar match (Python's None).
None == <<>>

\* .*? followed by \s*</value>\s*</data>: the first </value> at or after j
\* that is followed, after whitespace, by </data>; 0 when there is none.
RECURSIVE FirstValueClose(_, _)
FirstValueClose(c, j) ==
    IF j > Len(c) THEN 0
    ELSE IF c[j] = ValueClose
            /\ LET e == SkipWs(c, j + 1) IN e <= Len(c) /\ c[e] = DataClose
         THEN j
         ELSE FirstValueClose(c, j + 1)

\* .*? followed by \s*</(?P=simple_tag)>: the first closing tag at or after j
\* whose name is the opening tag's, case folded; 0 when there is none.
RECURSIVE FirstScalarClose(_, _, _)
FirstScalarClose(c, j, n) ==
    IF j > Len(c) THEN 0
    ELSE IF IsCloseTok(c[j]) /\ Fold(CloseName(c[j])) = Fold(n) THEN j
         ELSE FirstScalarClose(c, j + 1, n)

NoMatch == [end |-> 0, tag |-> "", text |-> <<>>, context |-> None]

\* The first alternative of the pattern tried at position i.
MatchData(c, i) ==
    IF c[i] \notin DataOpenToks THEN NoMatch
    ELSE LET p == SkipWs(c, i + 1) IN
         IF p > Len(c) \/ c[p] # ValueOpen THEN NoMatch
         ELSE LET q == SkipWs(c, p + 1)
                  k == FirstValueClose(c, q)
              IN  IF k = 0 THEN NoMatch
                  ELSE LET e == SkipWs(c, k + 1) IN
                       [end |-> e, tag |-> "value",
                        text |-> Strip(SubSeq(c, q, k - 1)),
                        context |-> SubSeq(c, i, e)]

\* The second alternative of the pattern tried at position i.
MatchScalar(c, i) ==
    IF ~IsOpenTok(c[i]) THEN NoMatch
    ELSE LET n == OpenName(c[i])
             k == FirstScalarClose(c, i + 1, n)
         IN  IF k = 0 THEN NoMatch
             ELSE [end |-> k, tag |-> n,
                   text |-> Strip(SubSeq(c, i + 1, k - 1)),
                   context |-> None]

MatchAt(c, i) ==
    IF MatchData(c, i).end # 0 THEN MatchData(c, i) ELSE MatchScalar(c, i)

\* pattern.finditer(content): the matches from position i on, leftmost
\* first, each search resuming after the previous match.
RECURSIVE FindIter(_, _)
FindIter(c, i) ==
    IF i > Len(c) THEN <<>>
    ELSE LET m == MatchAt(c, i) IN
         IF m.end = 0 THEN FindIter(c, i + 1)
         ELSE <<[tag |-> m.tag, text |-> m.text, context |-> m.context,
                 from |-> i, to |-> m.end]>>
              \o FindIter(c, m.end + 1)

\* What len(text) < 1 would filter: a text of one character is kept.
SkippedEmptyOnly(text) ==
    HasSkipKeyword(text) \/ is_chinese(text) \/ TextLen(text) < 1

Skipped(text) == HasSkipKeyword(text) \/ is_chinese(text) \/ TextLen(text) < 2

\* The (tag, text, context) triple of a match, without its span.
Fragment(m) == [tag |-> m.tag, text |-> m.text, context |-> m.context]

RECURSIVE KeepFragments(_)
KeepFragments(ms) ==
    IF ms = <<>> THEN <<>>
    ELSE IF Skipped(Head(ms).text) THEN KeepFragments(Tail(ms))
         ELSE <<Fragment(Head(ms))>> \o KeepFragments(Tail(ms))

parse_translatable_content(content) == KeepFragments(FindIter(content, 1))

\* ------------------------------------------------------------ replacement

\* A result of a shard: (tag, original, translated, context).
Result(fr, translated) ==
    [tag |-> fr.tag, original |-> fr.text, translated |-> translated,
     context |-> fr.context]

\* A literal at position i: the position of its last token, 0 for no match.
LitEnd(c, i, lit) ==
    IF lit # <<>> /\ i + Len(lit) - 1 <= Len(c)
       /\ SubSeq(c, i, i + Len(lit) - 1) = lit
    THEN i + Len(lit) - 1
    ELSE 0

\* open \s* body \s* close at position i (case sensitive): the position of
\* the closing token, 0 for no match.
WrappedEnd(c, i, open, body, close) ==
    IF c[i] # open THEN 0
    ELSE LET p == SkipWs(c, i + 1)
             q == IF body = <<>> THEN p
                  ELSE IF LitEnd(c, p, body) = 0 THEN 0
                  ELSE LitEnd(c, p, body) + 1
         IN  IF q = 0 THEN 0
             ELSE LET r == SkipWs(c, q) IN
                  IF r <= Len(c) /\ c[r] = close THEN r ELSE 0

\* The two pattern shapes the replacement engine builds.
LitPattern(lit) == [kind |-> "lit", open |-> "", body |-> lit, close |-> ""]

WrappedPattern(open, body, close) ==
    [kind |-> "wrapped", open |-> open, body |-> body, close |-> close]

PatEnd(c, i, pat) ==
    IF pat.kind = "lit" THEN LitEnd(c, i, pat.body)
    ELSE WrappedEnd(c, i, pat.open, pat.body, pat.close)

\* re.sub(pattern, repl, c) from position i on, with count = 0: every
\* non-overlapping match, leftmost first, is replaced.
RECURSIVE SubAllFrom(_, _, _, _)
SubAllFrom(c, i, pat, repl) ==
    IF i > Len(c) THEN <<>>
    ELSE LET e == PatEnd(c, i, pat) IN
         IF e = 0 THEN <<c[i]>> \o SubAllFrom(c, i + 1, pat, repl)
         ELSE repl \o SubAllFrom(c, e + 1, pat, repl)

\* What re.sub(pattern, repl, content, count=1) would do: the leftmost match
\* only.
re_sub_first(pat, repl, c) ==
    LET hits == {i \in 1..Len(c) : PatEnd(c, i, pat) # 0} IN
    IF hits = {} THEN c
    ELSE LET i == CHOOSE h \in hits : \A g \in hits : h <= g IN
         SubSeq(c, 1, i - 1) \o repl \o SubSeq(c, PatEnd(c, i, pat) + 1, Len(c))

re_sub(pat, repl, c) == SubAllFrom(c, 1, pat, repl)

\* re.sub parses the replacement as a template before it searches: a bad
\* escape raises re.error whether or not the pattern matches.
BadTemplate(repl) == \E i \in 1..Len(repl) : repl[i] = BadEscape

\* What lines 192-206 would do without the anchor: a value result replaced
\* wherever <value>original</value> occurs in the content.
ReplacementUnanchored(r) ==
    IF r.tag = "value" /\ r.context # None
    THEN LET tmpl == <<ValueOpen>> \o r.translated \o <<ValueClose>> IN
         IF BadTemplate(tmpl) THEN <<>>
         ELSE <<[pat |-> WrappedPattern(ValueOpen, r.original, ValueClose),
                 repl |-> tmpl]>>
    ELSE <<[pat |-> WrappedPattern(OpenTok(r.tag), r.original, CloseTok(r.tag)),
            repl |-> <<OpenTok(r.tag)>> \o r.translated \o <<CloseTok(r.tag)>>]>>

\* Lines 192-206: the (pattern, replacement) pair of one result, or no pair
\* when building it raised inside the per-result try.
Replacement(r) ==
    IF r.tag = "value" /\ r.context # None
    THEN LET tmpl == <<ValueOpen>> \o r.translated \o <<ValueClose>> IN
         IF BadTemplate(tmpl) THEN <<>>
         ELSE <<[pat |-> LitPattern(r.context),
                 repl |-> re_sub(WrappedPattern(ValueOpen, r.original, ValueClose),
                                 tmpl, r.context)]>>
    ELSE <<[pat |-> WrappedPattern(OpenTok(r.tag), r.original, CloseTok(r.tag)),
            repl |-> <<OpenTok(r.tag)>> \o r.translated \o <<CloseTok(r.tag)>>]>>

RECURSIVE Replacements(_)
Replacements(rs) ==
    IF rs = <<>> THEN <<>> ELSE Replacement(Head(rs)) \o Replacements(Tail(rs))

\* Lines 208-209: the pairs applied in order, outside any try: a replacement
\* that re.sub rejects raises out of replace_translated_content.
RECURSIVE ApplyReplacements(_, _)
ApplyReplacements(content, reps) ==
    IF reps = <<>> THEN [ok |-> TRUE, content |-> content]
    ELSE IF BadTemplate(Head(reps).repl) THEN [ok |-> FALSE, content |-> content]
    ELSE ApplyReplacements(re_sub(Head(reps).pat, Head(reps).repl, content),
                           Tail(reps))

\* The content written to the output file (ok), or the exception (not ok).
replace_translated_content(content, translations) ==
    ApplyReplacements(content, Replacements(translations))

\* ------------------------------------------------------ clean_translation

DropLabel(s) ==
    IF s # <<>> /\ Head(s) = LabelEcho THEN LStrip(Tail(s)) ELSE s

RECURSIVE DropStray(_)
DropStray(s) ==
    IF s = <<>> THEN <<>>
    ELSE IF Head(s) = StrayTag THEN DropStray(Tail(s))
    ELSE <<Head(s)>> \o DropStray(Tail(s))

clean_translation(text) == Strip(DropStray(DropLabel(text)))

\* -------------------------------------------------------------- scheduler

MAX_RETRIES == 3

\* max_workers of the file pool in main.
FILE_POOL_WORKERS == 4

\* Bounds of the model: clients (API keys), files of the mod, and elements
\* of a generated document.
MaxClients == 2

MaxFiles == 2

MaxElems == 3

Clients == 1..MaxClients

Files == 1..MaxFiles

\* Python's matches[i::k] for i = 0..k-1, as positions of matches (1-based):
\* start at i + 1 and step by k while inside the list.
RECURSIVE SliceFrom(_, _, _)
SliceFrom(n, p, k) == IF p > n THEN <<>> ELSE <<p>> \o SliceFrom(n, p + k, k)

\* What matches[i:-1:k] would select: the last fragment is in no slice.
SlicePositionsShort(n, i, k) == SliceFrom(n - 1, i + 1, k)

SlicePositions(n, i, k) == SliceFrom(n, i + 1, k)

Pick(seq, positions) == [j \in 1..Len(positions) |-> seq[positions[j]]]

\* batches = [matches[i::len(translators)] for i in range(len(translators))];
\* batches[i + 1] here is Python's batches[i].
Batches(matches, k) ==
    [i \in 1..k |-> Pick(matches, SlicePositions(Len(matches), i - 1, k))]

\* The except branch of batch_translate and of process_batch: every item of
\* the batch with its own text as translation.
Degraded(batch) == [j \in 1..Len(batch) |-> Result(batch[j], batch[j].text)]

\* cache_key = f"{tag}:{text}"
CacheKey(tag, text) == <<tag, text>>

\* ------------------------------------------------------------------ state

VARIABLES
    nclients,           \* len(translators): the number of API keys
    fileContent,        \* the content of each input file
    cache,              \* translator.cache of each translator (a dict)
    cacheFile,          \* the content of CACHE_FILE (a dict)
    translation_stats,  \* the global counters
    mainPc,             \* where main is
    file,               \* the process_file task of each file
    shard,              \* the process_batch task of each (file, translator)
    output,             \* the content written for each file, or NotWritten
    netOk,              \* history: successful network answers per cache key
    saveFailed,         \* history: some save_cache caught an exception
    logCalls,           \* history: log_translation calls past the early return
    doc,                \* single-file pipeline: the content
    step,               \* single-file pipeline: where it is
    frags,              \* single-file pipeline: the extracted fragments
    batches,            \* single-file pipeline: the shards
    results,            \* single-file pipeline: all_translations
    written,            \* single-file pipeline: outcome of the replacement
    api_keys,           \* configuration: the api_keys list of CONFIG_FILE
    api_url,            \* configuration: the api_url of CONFIG_FILE
    configPc            \* configuration: where load_api_config is

runVars ==
    <<nclients, fileContent, cache, cacheFile, translation_stats, mainPc, file,
      shard, output, netOk, saveFailed, logCalls>>

textVars == <<doc, step, frags, batches, results, written>>

configVars == <<api_keys, api_url, configPc>>

vars == <<runVars, textVars, configVars>>

\* ---------------------------------------------------------- configuration

\* The default api_keys and api_url generate_api_config writes (their
\* Chinese placeholders under ASCII names).
PlaceholderKey == "ZH_tianru_miyao"

PlaceholderUrl == "ZH_tianru_URL"

DefaultKeys == <<PlaceholderKey, WS, WS>>

\* What a key or a URL of the configuration file can be.
KeyTokens == {"sk-a", WS, "", PlaceholderKey}

UrlTokens == {"https://api", "", PlaceholderUrl}

\* not k.strip()
Blank(k) == k \in {"", WS}

\* load_api_config, lines 335-348: the configuration is returned, none of
\* the three exit(1) being taken.
Accepted(keys, url) ==
    /\ ~(keys = <<>> \/ \A i \in 1..Len(keys) : Blank(keys[i]))
    /\ ~Blank(url)
    /\ ~(keys = DefaultKeys \/ url = PlaceholderUrl)

\* The configuration of a run with k translators, loaded.
ConfigLoaded(k) ==
    /\ api_keys = [i \in 1..k |-> "sk-a"]
    /\ api_url = "https://api"
    /\ configPc = "loaded"

\* ------------------------------------------------------ documents, answers

TipStone == <<"<Tooltip>", "Stone", "</Tooltip>">>

DescRock == <<"<Description>", "Rock", "</Description>">>

TipChinese == <<"<Tooltip>", "ZH_ziyuan", "</Tooltip>">>

\* The files of the concurrent run: nothing to translate, one fragment, two
\* fragments with one cache key, two fragments with two keys.
RunDocs == <<TipChinese, TipStone, TipStone \o TipStone, TipStone \o DescRock>>

\* Bound: the fragments of all files of a run together.
MaxRunFragments == 2

RECURSIVE SumOver(_, _)
SumOver(g, n) == IF n = 0 THEN 0 ELSE g[n] + SumOver(g, n - 1)

\* The assignments of documents to files that differ by more than the order
\* of the files, within the bound.
RunContents ==
    {[f \in Files |-> RunDocs[c[f]]] :
        c \in {c \in [Files -> 1..Len(RunDocs)] :
                 /\ \A f \in Files : f + 1 \in Files => c[f] <= c[f + 1]
                 /\ SumOver([f \in Files |->
                               Len(parse_translatable_content(RunDocs[c[f]]))],
                            MaxFiles) <= MaxRunFragments}}

RunKeys ==
    {CacheKey("Tooltip", <<"Stone">>), CacheKey("Description", <<"Rock">>)}

\* What one network attempt can produce: a transport or HTTP error, a JSON
\* answer without output.text, or an answer with a text.
AnswerTexts ==
    {<<WS, LabelEcho, WS, "ZH_shitou">>, <<StrayTag>>, <<WS>>, <<BadEscape>>}

Outcomes ==
    {[kind |-> "error", text |-> <<>>], [kind |-> "nofield", text |-> <<>>]}
    \cup {[kind |-> "text", text |-> t] : t \in AnswerTexts}

EmptyDict == [k \in {} |-> <<>>]

\* The cache file found at startup.
StartupCaches ==
    {EmptyDict, CacheKey("Tooltip", <<"Stone">>) :> <<"ZH_shitou">>}

NotWritten == [ok |-> FALSE, content |-> <<>>]

IdleFile ==
    [pc |-> "idle", matches |-> <<>>, all_translations |-> <<>>,
     logq |-> <<>>, after |-> "", tmp |-> 0, outcome |-> "none"]

IdleShard ==
    [pc |-> "none", batch |-> <<>>, idx |-> 1, attempt |-> 0,
     translated |-> <<>>, results |-> <<>>, reqs |-> 0, wrote |-> FALSE,
     raised |-> FALSE, got |-> <<>>, collected |-> FALSE]

RunInit(k, contents, startup) ==
    /\ nclients = k
    /\ fileContent = contents
    /\ cacheFile = startup
    /\ cache = [t \in Clients |-> IF t <= k THEN startup ELSE EmptyDict]
    /\ translation_stats = [total |-> 0, success |-> 0, failed |-> 0]
    /\ mainPc = "start"
    /\ file = [f \in Files |-> IdleFile]
    /\ shard = [s \in Files \X Clients |-> IdleShard]
    /\ output = [f \in Files |-> NotWritten]
    /\ netOk = [key \in RunKeys |-> 0]
    /\ saveFailed = FALSE
    /\ logCalls = 0

TextIdle ==
    /\ doc = <<>>
    /\ step = "off"
    /\ frags = <<>>
    /\ batches = <<>>
    /\ results = <<>>
    /\ written = NotWritten

Init ==
    /\ \E k \in Clients, contents \in RunContents,
          startup \in StartupCaches : RunInit(k, contents, startup)
    /\ TextIdle
    /\ ConfigLoaded(nclients)

\* ------------------------------------------------------------------- main

Running(f) == file[f].pc \notin {"idle", "queued", "done"}

\* main, lines 403-405: every file of the mod is submitted to the file pool.
SubmitFiles ==
    /\ mainPc = "start"
    /\ mainPc' = "wait"
    /\ file' = [f \in Files |-> [file[f] EXCEPT !.pc = "queued"]]
    /\ UNCHANGED <<nclients, fileContent, cache, cacheFile, translation_stats,
                   shard, output, netOk, saveFailed, logCalls>>
    /\ UNCHANGED <<textVars, configVars>>

\* main, lines 406-426: every future has completed; the summary is written.
Finish ==
    /\ mainPc = "wait"
    /\ \A f \in Files : file[f].pc = "done"
    /\ mainPc' = "done"
    /\ UNCHANGED <<nclients, fileContent, cache, cacheFile, translation_stats,
                   file, shard, output, netOk, saveFailed, logCalls>>
    /\ UNCHANGED <<textVars, configVars>>

\* ----------------------------------------------------------- process_file

\* The item log_translation is called with: its original text and status.
LogItem(original, status) == [original |-> original, status |-> status]

\* Line 293 passes no status: every result is logged with the default.
ResultLogItems(rs) == [j \in 1..Len(rs) |-> LogItem(rs[j].original, "Success")]

\* Line 298: log_translation(mod_id, "", "", file_path, "Failed", str(e)).
FailedLogItems == <<LogItem(<<>>, "Failed")>>

\* process_file, lines 263-287, run by a free worker of the file pool: the
\* backup and the read (either may raise), the extraction, the early return
\* for a file without fragments, the shards and their submission.
StartFile(f, ioOk) ==
    /\ file[f].pc = "queued"
    /\ Cardinality({g \in Files : Running(g)}) < FILE_POOL_WORKERS
    /\ LET matches == parse_translatable_content(fileContent[f])
           bs == Batches(matches, nclients)
       IN  IF ~ioOk
           THEN /\ file' = [file EXCEPT ![f].pc = "log_rt",
                               ![f].logq = FailedLogItems, ![f].after = "done",
                               ![f].outcome = "failed"]
                /\ shard' = shard
           ELSE IF matches = <<>>
           THEN /\ file' = [file EXCEPT ![f].pc = "done", ![f].outcome = "skipped"]
                /\ shard' = shard
           ELSE /\ file' = [file EXCEPT ![f].pc = "join", ![f].matches = matches]
                /\ shard' = [s \in Files \X Clients |->
                               IF s[1] = f /\ s[2] <= nclients /\ bs[s[2]] # <<>>
                               THEN [shard[s] EXCEPT !.pc = "call", !.batch = bs[s[2]]]
                               ELSE shard[s]]
    /\ UNCHANGED <<nclients, fileContent, cache, cacheFile, translation_stats,
                   mainPc, output, netOk, saveFailed, logCalls>>
    /\ UNCHANGED <<textVars, configVars>>

\* process_file, lines 289-293: as_completed hands over a finished shard; its
\* results are appended and then logged one by one.
Collect(f, i) ==
    /\ file[f].pc = "join"
    /\ shard[<<f, i>>].pc = "done"
    /\ ~shard[<<f, i>>].collected
    /\ shard' = [shard EXCEPT ![<<f, i>>].collected = TRUE]
    /\ file' = [file EXCEPT
                  ![f].all_translations = @ \o shard[<<f, i>>].results,
                  ![f].logq = ResultLogItems(shard[<<f, i>>].results),
                  ![f].after = "join",
                  ![f].pc = "log_rt"]
    /\ UNCHANGED <<nclients, fileContent, cache, cacheFile, translation_stats,
                   mainPc, output, netOk, saveFailed, logCalls>>
    /\ UNCHANGED <<textVars, configVars>>

Submitted(f) == {i \in Clients : shard[<<f, i>>].pc # "none"}

\* What line 295 would do inside the as_completed loop: the replacement as
\* soon as one shard has been collected.
ReplaceEarly(f) ==
    /\ file[f].pc = "join"
    /\ \E i \in Submitted(f) : shard[<<f, i>>].collected
    /\ LET r == replace_translated_content(fileContent[f], file[f].all_translations)
       IN  IF r.ok
           THEN /\ output' = [output EXCEPT ![f] = r]
                /\ file' = [file EXCEPT ![f].pc = "done", ![f].outcome = "written"]
           ELSE /\ output' = output
                /\ file' = [file EXCEPT ![f].pc = "log_rt",
                               ![f].logq = FailedLogItems, ![f].after = "done",
                               ![f].outcome = "failed"]
    /\ UNCHANGED <<nclients, fileContent, cache, cacheFile, translation_stats,
                   mainPc, shard, netOk, saveFailed, logCalls>>
    /\ UNCHANGED <<textVars, configVars>>

\* process_file, lines 295-299: after the last shard, the replacement; an
\* exception it raises is logged as a failed file.
Replace(f) ==
    /\ file[f].pc = "join"
    /\ \A i \in Submitted(f) : shard[<<f, i>>].collected
    /\ LET r == replace_translated_content(fileContent[f], file[f].all_translations)
       IN  IF r.ok
           THEN /\ output' = [output EXCEPT ![f] = r]
                /\ file' = [file EXCEPT ![f].pc = "done", ![f].outcome = "written"]
           ELSE /\ output' = output
                /\ file' = [file EXCEPT ![f].pc = "log_rt",
                               ![f].logq = FailedLogItems, ![f].after = "done",
                               ![f].outcome = "failed"]
    /\ UNCHANGED <<nclients, fileContent, cache, cacheFile, translation_stats,
                   mainPc, shard, netOk, saveFailed, logCalls>>
    /\ UNCHANGED <<textVars, configVars>>

\* -------------------------------------------------------- log_translation

\* The counter line 250-253 updates for a status.
StatusCounter(status) == IF status = "Success" THEN "success" ELSE "failed"

\* The dict after translation_stats[name] = value.
StoreCounter(stats, name, value) == [stats EXCEPT ![name] = value]

NextLogPc(f) == IF Len(file[f].logq) > 1 THEN "log_rt" ELSE file[f].after

\* Lines 238-249: the early return for a Chinese original; otherwise the
\* read of translation_stats["total"] (+= reads, adds, then stores).
LogReadTotal(f) ==
    /\ file[f].pc = "log_rt"
    /\ IF is_chinese(Head(file[f].logq).original)
       THEN /\ file' = [file EXCEPT ![f].pc = NextLogPc(f), ![f].logq = Tail(@)]
            /\ logCalls' = logCalls
       ELSE /\ file' = [file EXCEPT ![f].pc = "log_wt",
                           ![f].tmp = translation_stats.total]
            /\ logCalls' = logCalls + 1
    /\ UNCHANGED <<nclients, fileContent, cache, cacheFile, translation_stats,
                   mainPc, shard, output, netOk, saveFailed>>
    /\ UNCHANGED <<textVars, configVars>>

\* Line 249: the store of translation_stats["total"].
LogWriteTotal(f) ==
    /\ file[f].pc = "log_wt"
    /\ translation_stats' = StoreCounter(translation_stats, "total", file[f].tmp + 1)
    /\ file' = [file EXCEPT ![f].pc = "log_rs"]
    /\ UNCHANGED <<nclients, fileContent, cache, cacheFile, mainPc, shard,
                   output, netOk, saveFailed, logCalls>>
    /\ UNCHANGED <<textVars, configVars>>

\* Lines 250-253: the read of the success or failed counter.
LogReadStatus(f) ==
    /\ file[f].pc = "log_rs"
    /\ file' = [file EXCEPT ![f].pc = "log_ws",
                  ![f].tmp = translation_stats[StatusCounter(Head(file[f].logq).status)]]
    /\ UNCHANGED <<nclients, fileContent, cache, cacheFile, translation_stats,
                   mainPc, shard, output, netOk, saveFailed, logCalls>>
    /\ UNCHANGED <<textVars, configVars>>

\* Lines 250-260: the store of that counter; the log entry is appended to
\* the log file (a failure to write it is caught) and the call returns.
LogWriteStatus(f) ==
    /\ file[f].pc = "log_ws"
    /\ translation_stats' =
          StoreCounter(translation_stats,
                       StatusCounter(Head(file[f].logq).status), file[f].tmp + 1)
    /\ file' = [file EXCEPT ![f].pc = NextLogPc(f), ![f].logq = Tail(@)]
    /\ UNCHANGED <<nclients, fileContent, cache, cacheFile, mainPc, shard,
                   output, netOk, saveFailed, logCalls>>
    /\ UNCHANGED <<textVars, configVars>>

\* --------------------------------------- batch_translate, translate_text

\* The fragment a shard is translating, and its cache key.
Current(s) == s.batch[s.idx]

CurrentKey(s) == CacheKey(Current(s).tag, Current(s).text)

\* d[k] = v on a dict.
Put(d, k, v) == [x \in DOMAIN d \cup {k} |-> IF x = k THEN v ELSE d[x]]

\* batch_translate, lines 228-231: translate_text returned t; the result is
\* appended and the loop goes on, or the shard returns its results.
Advance(s, t) ==
    [s EXCEPT !.results = Append(@, Result(Current(s), t)),
              !.got = Append(@, t),
              !.idx = @ + 1,
              !.pc = IF s.idx + 1 > Len(s.batch) THEN "done" ELSE "call"]

\* What a retry loop without a last attempt would do: after the last
\* failure the call starts over.
AbortRestart(s) == [s EXCEPT !.attempt = 0, !.reqs = 1, !.pc = "inflight"]

\* batch_translate, lines 232-234 (and process_batch, 304-306): an exception
\* of translate_text ends the loop and the shard returns the degraded batch.
Abort(s) ==
    [s EXCEPT !.results = Degraded(s.batch), !.raised = TRUE, !.pc = "done"]

\* What range(MAX_RETRIES + 1) would do: one attempt more.
RetryAgainOffByOne(failures) == failures <= MAX_RETRIES

\* for attempt in range(MAX_RETRIES): another attempt follows `failures`
\* failed ones.
RetryAgain(failures) == failures < MAX_RETRIES

\* translate_text, lines 74-102: the cache lookup of the translator's own
\* dict; a hit returns at once, a miss sends the first request.
Lookup(f, i) ==
    LET s == shard[<<f, i>>] IN
    /\ s.pc = "call"
    /\ IF CurrentKey(s) \in DOMAIN cache[i]
       THEN shard' = [shard EXCEPT ![<<f, i>>] = Advance(s, cache[i][CurrentKey(s)])]
       ELSE shard' = [shard EXCEPT ![<<f, i>>] =
                         [s EXCEPT !.pc = "inflight", !.attempt = 0, !.reqs = 1,
                                   !.wrote = FALSE]]
    /\ UNCHANGED <<nclients, fileContent, cache, cacheFile, translation_stats,
                   mainPc, file, output, netOk, saveFailed, logCalls>>
    /\ UNCHANGED <<textVars, configVars>>

\* Lines 106-111: the text an answer yields, <<>> when it yields none.
Translated(o) ==
    IF o.kind = "text" THEN clean_translation(Strip(o.text)) ELSE <<>>

\* What lines 102-120 would do without the test of line 109: any answer
\* with a text field is stored and returned, empty or not.
RespondUnchecked(f, i, o) ==
    LET s == shard[<<f, i>>] IN
    /\ s.pc = "inflight"
    /\ IF o.kind = "text"
       THEN /\ cache' = [cache EXCEPT ![i] = Put(@, CurrentKey(s), Translated(o))]
            /\ netOk' = [netOk EXCEPT ![CurrentKey(s)] = @ + 1]
            /\ shard' = [shard EXCEPT ![<<f, i>>] =
                            [s EXCEPT !.pc = "save", !.translated = Translated(o),
                                      !.wrote = TRUE]]
       ELSE /\ cache' = cache
            /\ netOk' = netOk
            /\ shard' = [shard EXCEPT ![<<f, i>>] =
                            IF RetryAgain(s.attempt + 1)
                            THEN [s EXCEPT !.attempt = @ + 1, !.reqs = @ + 1]
                            ELSE Abort([s EXCEPT !.attempt = @ + 1])]
    /\ UNCHANGED <<nclients, fileContent, cacheFile, translation_stats, mainPc,
                   file, output, saveFailed, logCalls>>
    /\ UNCHANGED <<textVars, configVars>>

\* translate_text, lines 102-120: the answer arrives.  A usable text is
\* stored in the translator's dict; anything else is a failed attempt,
\* followed by the sleep and the next request or the final raise.
Respond(f, i, o) ==
    LET s == shard[<<f, i>>] IN
    /\ s.pc = "inflight"
    /\ IF Translated(o) # <<>>
       THEN /\ cache' = [cache EXCEPT ![i] = Put(@, CurrentKey(s), Translated(o))]
            /\ netOk' = [netOk EXCEPT ![CurrentKey(s)] = @ + 1]
            /\ shard' = [shard EXCEPT ![<<f, i>>] =
                            [s EXCEPT !.pc = "save", !.translated = Translated(o),
                                      !.wrote = TRUE]]
       ELSE /\ cache' = cache
            /\ netOk' = netOk
            /\ shard' = [shard EXCEPT ![<<f, i>>] =
                            IF RetryAgain(s.attempt + 1)
                            THEN [s EXCEPT !.attempt = @ + 1, !.reqs = @ + 1]
                            ELSE Abort([s EXCEPT !.attempt = @ + 1])]
    /\ UNCHANGED <<nclients, fileContent, cacheFile, translation_stats, mainPc,
                   file, output, saveFailed, logCalls>>
    /\ UNCHANGED <<textVars, configVars>>

\* save_cache, lines 67-72: the translator's whole dict replaces the file.
\* A caught exception leaves the file as it was (open failed) or cut short
\* (json.dump failed), which holds no entry.
SavedFile(d, old, how) ==
    CASE how = "ok" -> d
      [] how = "unchanged" -> old
      [] OTHER -> EmptyDict

SaveHows == {"ok", "unchanged", "truncated"}

Save(f, i, how) ==
    LET s == shard[<<f, i>>] IN
    /\ s.pc = "save"
    /\ cacheFile' = SavedFile(cache[i], cacheFile, how)
    /\ saveFailed' = (saveFailed \/ how # "ok")
    /\ shard' = [shard EXCEPT ![<<f, i>>] = [s EXCEPT !.pc = "ret"]]
    /\ UNCHANGED <<nclients, fileContent, cache, translation_stats, mainPc,
                   file, output, netOk, logCalls>>
    /\ UNCHANGED <<textVars, configVars>>

\* translate_text, line 115: return translated.
Return(f, i) ==
    LET s == shard[<<f, i>>] IN
    /\ s.pc = "ret"
    /\ shard' = [shard EXCEPT ![<<f, i>>] = Advance(s, s.translated)]
    /\ UNCHANGED <<nclients, fileContent, cache, cacheFile, translation_stats,
                   mainPc, file, output, netOk, saveFailed, logCalls>>
    /\ UNCHANGED <<textVars, configVars>>

\* ---------------------------------------------------------- specification

Next ==
    \/ SubmitFiles
    \/ \E f \in Files, ioOk \in BOOLEAN : StartFile(f, ioOk)
    \/ \E f \in Files, i \in Clients : Lookup(f, i)
    \/ \E f \in Files, i \in Clients, o \in Outcomes : Respond(f, i, o)
    \/ \E f \in Files, i \in Clients, how \in SaveHows : Save(f, i, how)
    \/ \E f \in Files, i \in Clients : Return(f, i)
    \/ \E f \in Files, i \in Clients : Collect(f, i)
    \/ \E f \in Files : LogReadTotal(f)
    \/ \E f \in Files : LogWriteTotal(f)
    \/ \E f \in Files : LogReadStatus(f)
    \/ \E f \in Files : LogWriteStatus(f)
    \/ \E f \in Files : Replace(f)
    \/ Finish

Spec == Init /\ [][Next]_vars

\* ------------------------------------------------- the single-file pipeline
\* process_file on one document, its shards run to completion one after the
\* other, with every outcome of every translate_text call and every order of
\* completion of the shards.

\* The elements documents are built from.
DataAStone == <<"<data name=\"a\">", "<value>", "Stone", "</value>", "</data>">>

DataBStone ==
    <<"<data name=\"b\">", WS, "<value>", WS, "Stone", WS, "</value>", WS, "</data>">>

DataAItem == <<"<data name=\"a\">", "<value>", "Item", "</value>", "</data>">>

TipStoneSpaced == <<"<Tooltip>", WS, "Stone", WS, "</Tooltip>">>

TipStoneLower == <<"<tooltip>", "Stone", "</tooltip>">>

TipShort == <<"<Tooltip>", "x", "</Tooltip>">>

DescItemTipStone ==
    <<"<Description>", "Item", WS, "<Tooltip>", "Stone", "</Tooltip>", "</Description>">>

\* A Description whose text is kept (no skip keyword in it) and holds a
\* Tooltip element of its own.
DescRockTipStone ==
    <<"<Description>", "Rock", WS, "<Tooltip>", "Stone", "</Tooltip>", "</Description>">>

Elements ==
    {DataAStone, DataBStone, DataAItem, TipStone, TipStoneSpaced, TipStoneLower,
     TipShort, TipChinese, DescRock, DescItemTipStone, DescRockTipStone,
     <<"Rock">>, <<WS>>}

RECURSIVE DocsOf(_)
DocsOf(n) ==
    IF n = 0 THEN {<<>>}
    ELSE DocsOf(n - 1) \cup {d \o e : d \in DocsOf(n - 1), e \in Elements}

Docs == DocsOf(MaxElems)

\* What a translate_text call of the pipeline ends with: a text it returns,
\* or the exception after the last retry.
Raised == [ok |-> FALSE, text |-> <<>>]

CallOutcomes ==
    {Raised} \cup {[ok |-> TRUE, text |-> t] :
                     t \in {<<"ZH_shitou">>, <<"ZH_yanshi">>, <<BadEscape>>}}

\* batch_translate, lines 225-234, given the outcome of each call: the
\* results in order, or the degraded batch when a call raised.
batch_translate(batch, outs) ==
    IF \E j \in 1..Len(batch) : ~outs[j].ok THEN Degraded(batch)
    ELSE [j \in 1..Len(batch) |-> Result(batch[j], outs[j].text)]

\* The orders in which the shards of S can complete.
Orders(S) ==
    {p \in [1..Cardinality(S) -> S] :
        \A a, b \in 1..Cardinality(S) : a # b => p[a] # p[b]}

RECURSIVE Concat(_, _)
Concat(rs, order) ==
    IF order = <<>> THEN <<>> ELSE rs[Head(order)] \o Concat(rs, Tail(order))

\* process_file, line 269-272: the extraction and the early return.
Extract ==
    /\ step = "read"
    /\ frags' = parse_translatable_content(doc)
    /\ step' = IF frags' = <<>> THEN "skipped" ELSE "parsed"
    /\ UNCHANGED <<doc, batches, results, written>>
    /\ UNCHANGED <<runVars, configVars>>

\* process_file, line 274: the shards.
MakeBatches ==
    /\ step = "parsed"
    /\ batches' = Batches(frags, nclients)
    /\ step' = "sharded"
    /\ UNCHANGED <<doc, frags, results, written>>
    /\ UNCHANGED <<runVars, configVars>>

\* process_file, lines 277-291: every non-empty shard runs batch_translate;
\* all_translations collects their results in the order they complete.
TranslateAll ==
    /\ step = "sharded"
    /\ \E outs \in [1..Len(frags) -> CallOutcomes],
          order \in Orders({i \in 1..nclients : batches[i] # <<>>}) :
          results' =
             Concat([i \in 1..nclients |->
                       batch_translate(batches[i],
                           Pick(outs, SlicePositions(Len(frags), i - 1, nclients)))],
                    order)
    /\ step' = "translated"
    /\ UNCHANGED <<doc, frags, batches, written>>
    /\ UNCHANGED <<runVars, configVars>>

\* process_file, line 295: the replacement with all results.
ReplaceAll ==
    /\ step = "translated"
    /\ written' = replace_translated_content(doc, results)
    /\ step' = "replaced"
    /\ UNCHANGED <<doc, frags, batches, results>>
    /\ UNCHANGED <<runVars, configVars>>

\* replace_translated_content given one of the results alone.
ReplaceOne(j) ==
    /\ step = "translated"
    /\ results' = <<results[j]>>
    /\ written' = replace_translated_content(doc, <<results[j]>>)
    /\ step' = "replaced_one"
    /\ UNCHANGED <<doc, frags, batches>>
    /\ UNCHANGED <<runVars, configVars>>

TextInit ==
    /\ \E k \in Clients : RunInit(k, [f \in Files |-> TipChinese], EmptyDict)
    /\ doc \in Docs
    /\ step = "read"
    /\ frags = <<>>
    /\ batches = <<>>
    /\ results = <<>>
    /\ written = NotWritten
    /\ ConfigLoaded(nclients)

TextNext ==
    \/ Extract
    \/ MakeBatches
    \/ TranslateAll
    \/ ReplaceAll
    \/ \E j \in 1..Len(results) : ReplaceOne(j)

SpecText == TextInit /\ [][TextNext]_vars

\* ------------------------------------------------------------- the shards
\* Line 274 alone, on every fragment list up to a length and every number of
\* translators.

MaxFragments == 4

MaxShards == 4

SampleFragments ==
    {[tag |-> "Tooltip", text |-> <<"Stone">>, context |-> None],
     [tag |-> "value", text |-> <<"Stone">>, context |-> DataAStone]}

RECURSIVE ListsOf(_, _)
ListsOf(S, n) ==
    IF n = 0 THEN {<<>>}
    ELSE ListsOf(S, n - 1) \cup {Append(l, x) : l \in ListsOf(S, n - 1), x \in S}

ShardsInit ==
    /\ \E k \in 1..MaxShards : RunInit(k, [f \in Files |-> TipChinese], EmptyDict)
    /\ doc = <<>>
    /\ step = "parsed"
    /\ frags \in ListsOf(SampleFragments, MaxFragments) \ {<<>>}
    /\ batches = <<>>
    /\ results = <<>>
    /\ written = NotWritten
    /\ ConfigLoaded(nclients)

ShardsNext == MakeBatches

SpecShards == ShardsInit /\ [][ShardsNext]_vars

\* ------------------------------------------------------ the configuration
\* load_api_config on every configuration file up to a number of keys, the
\* translators main builds from it, and the shards of a file's fragments.

MaxKeys == 3

ConfigInit ==
    /\ RunInit(0, [f \in Files |-> TipChinese], EmptyDict)
    /\ doc = <<>>
    /\ step = "parsed"
    /\ frags \in ListsOf(SampleFragments, MaxKeys) \ {<<>>}
    /\ batches = <<>>
    /\ results = <<>>
    /\ written = NotWritten
    /\ api_keys \in ListsOf(KeyTokens, MaxKeys)
    /\ api_url \in UrlTokens
    /\ configPc = "start"

\* main, lines 365-366: load_api_config returns or exits; one translator is
\* built for every key of the list.
LoadConfig ==
    /\ configPc = "start"
    /\ IF Accepted(api_keys, api_url)
       THEN configPc' = "loaded" /\ nclients' = Len(api_keys)
       ELSE configPc' = "exit" /\ nclients' = nclients
    /\ UNCHANGED <<api_keys, api_url>>
    /\ UNCHANGED <<fileContent, cache, cacheFile, translation_stats, mainPc,
                   file, shard, output, netOk, saveFailed, logCalls>>
    /\ UNCHANGED textVars

\* process_file runs only in a run whose configuration was accepted.
ShardWithConfig == configPc = "loaded" /\ MakeBatches

ConfigNext == LoadConfig \/ ShardWithConfig

SpecConfig == ConfigInit /\ [][ConfigNext]_vars

\* ----------------------------------------------------------------- claims

AllShards == Files \X Clients

\* The cache key of the j-th fragment of a shard.
KeyAt(s, j) == CacheKey(shard[s].batch[j].tag, shard[s].batch[j].text)

\* The texts the translate_text calls made so far returned for a cache key.
ReturnedFor(key) ==
    UNION {{shard[s].got[j] : j \in {j \in 1..Len(shard[s].got) : KeyAt(s, j) = key}} :
             s \in AllShards}

\* A shard is inside a translate_text call that missed the cache.
InCall(s) == shard[s].pc \in {"inflight", "save", "ret"}

\* C1 (as claimed): for every cache key the network request succeeds at most
\* once in a run, over all translators, and every call that returned a text
\* for the key returned the same text.
C1_CacheShortCircuit ==
    \A key \in RunKeys :
        /\ netOk[key] <= 1
        /\ Cardinality(ReturnedFor(key)) <= 1

\* C2 (as claimed): while no save_cache has failed, every entry of the cache
\* file is still in the file, with its value, after every step.
C2_FileOnlyGrows ==
    [][~saveFailed' =>
          \A key \in DOMAIN cacheFile :
              key \in DOMAIN cacheFile' /\ cacheFile'[key] = cacheFile[key]]_vars

\* C3 (as claimed): a finished shard returns one result per fragment, in
\* order; a fragment whose translate_text call returned carries the text
\* that call returned, and only a fragment whose call did not return carries
\* its own source text.
C3_DegradationPerFragment ==
    \A s \in AllShards :
        shard[s].pc = "done" =>
            /\ Len(shard[s].results) = Len(shard[s].batch)
            /\ \A j \in 1..Len(shard[s].batch) :
                  /\ shard[s].results[j].tag = shard[s].batch[j].tag
                  /\ shard[s].results[j].original = shard[s].batch[j].text
                  /\ shard[s].results[j].context = shard[s].batch[j].context
                  /\ shard[s].results[j].translated =
                        IF j <= Len(shard[s].got) THEN shard[s].got[j]
                        ELSE shard[s].batch[j].text

\* C4: inside a call that missed the cache the requests sent are one more
\* than the failed attempts and at most MAX_RETRIES, so a call that succeeds
\* has sent as many requests as the index of its first successful attempt; a
\* call that raised sent exactly MAX_RETRIES requests, all failed, and never
\* stored an entry in the cache.
C4_BoundedRetry ==
    \A s \in AllShards :
        /\ InCall(s) =>
              /\ shard[s].reqs = shard[s].attempt + 1
              /\ shard[s].reqs <= MAX_RETRIES
        /\ shard[s].pc \in {"save", "ret"} => shard[s].wrote
        /\ shard[s].raised =>
              /\ shard[s].reqs = MAX_RETRIES
              /\ shard[s].attempt = MAX_RETRIES
              /\ ~shard[s].wrote

\* C4 witness: one call raised after its third request while another call
\* is returning the answer to its second request.
C4_Witness ==
    /\ \E s \in AllShards : shard[s].raised /\ shard[s].reqs = MAX_RETRIES
    /\ \E s \in AllShards : shard[s].pc = "ret" /\ shard[s].reqs = 2

\* The number of positions 1..n that fall into shard i of k (i from 1).
PositionsOf(n, i, k) == {p \in 1..n : (p - 1) % k = i - 1}

\* C5: the shards are one per translator; fragment p (from 1) is in shard
\* ((p - 1) mod k) + 1 at place ((p - 1) div k) + 1, and a shard holds
\* nothing else: every fragment is in exactly one shard exactly once, in
\* extraction order.
C5_ShardPartition ==
    step = "sharded" =>
        /\ DOMAIN batches = 1..nclients
        /\ \A i \in 1..nclients :
              Len(batches[i]) = Cardinality(PositionsOf(Len(frags), i, nclients))
        /\ \A p \in 1..Len(frags) :
              batches[((p - 1) % nclients) + 1][((p - 1) \div nclients) + 1] = frags[p]

\* C5 witness: more fragments than translators, several translators, and a
\* number of fragments that is no multiple of the number of translators.
C5_Witness ==
    /\ step = "sharded"
    /\ nclients > 1
    /\ Len(frags) > nclients
    /\ Len(frags) % nclients # 0

\* The matches of the extraction pattern in the document, with their spans.
DocMatches == FindIter(doc, 1)

DataMatches == {a \in 1..Len(DocMatches) : DocMatches[a].tag = "value"}

FirstIndex(c, t) == CHOOSE i \in 1..Len(c) : c[i] = t /\ \A j \in 1..(i - 1) : c[j] # t

LastIndex(c, t) == CHOOSE i \in 1..Len(c) : c[i] = t /\ \A j \in (i + 1)..Len(c) : c[j] # t

\* A block with the text between <value> and </value> replaced by t.
BlockWithValue(block, t) ==
    SubSeq(block, 1, FirstIndex(block, ValueOpen)) \o t
    \o SubSeq(block, LastIndex(block, ValueClose), Len(block))

\* The document with the span of match m replaced by nb.
DocWithSpan(m, nb) ==
    SubSeq(doc, 1, m.from - 1) \o nb \o SubSeq(doc, m.to + 1, Len(doc))

\* The document holds exactly two blocks, a and b, of the same value text and
\* different opening tags (names), and the one result applied is anchored at a.
TwoBlocksOneResult(a, b) ==
    /\ step = "replaced_one"
    /\ DataMatches = {a, b}
    /\ a # b
    /\ DocMatches[a].text = DocMatches[b].text
    /\ DocMatches[a].context[1] # DocMatches[b].context[1]
    /\ results[1].tag = "value"
    /\ results[1].context = DocMatches[a].context
    /\ results[1].original = DocMatches[a].text

\* C6: with two blocks of the same value text and different names, one result
\* anchored at one of them yields the document with that block's value text
\* replaced by the translation and nothing else changed, the other block
\* included.  (A translation re rejects as a replacement template makes the
\* per-result try drop the result: then the document is written unchanged.)
C6_DuplicateTextSafety ==
    \A a, b \in 1..Len(DocMatches) :
        TwoBlocksOneResult(a, b) =>
            /\ written.ok
            /\ written.content =
                  IF BadTemplate(results[1].translated) THEN doc
                  ELSE DocWithSpan(DocMatches[a],
                           BlockWithValue(DocMatches[a].context, results[1].translated))

\* C6 witness: such a document, the second block holding whitespace around
\* its tags, after a result anchored at the first block put a Chinese text in.
C6_Witness ==
    \E a, b \in 1..Len(DocMatches) :
        /\ TwoBlocksOneResult(a, b)
        /\ a < b
        /\ Len(DocMatches[b].context) > Len(DocMatches[a].context)
        /\ results[1].translated = <<"ZH_shitou">>
        /\ written.content # doc

\* The spans of the fragments the extractor kept, in document order.
RECURSIVE KeptSpans(_)
KeptSpans(ms) ==
    IF ms = <<>> THEN <<>>
    ELSE IF Skipped(Head(ms).text) THEN KeptSpans(Tail(ms))
         ELSE <<Head(ms)>> \o KeptSpans(Tail(ms))

\* The parts of content c outside the spans: before the first, between two
\* neighbours, after the last (from position i on).
RECURSIVE Gaps(_, _, _)
Gaps(c, i, spans) ==
    IF spans = <<>> THEN <<SubSeq(c, i, Len(c))>>
    ELSE <<SubSeq(c, i, Head(spans).from - 1)>>
         \o Gaps(c, Head(spans).to + 1, Tail(spans))

\* out, from position i on, is some text followed by the first gap, some
\* text followed by the second gap, ..., ending with the last gap.
RECURSIVE FitsFrom(_, _, _)
FitsFrom(out, i, gaps) ==
    IF gaps = <<>> THEN i = Len(out) + 1
    ELSE \E j \in i..(Len(out) + 1) :
            /\ j + Len(Head(gaps)) - 1 <= Len(out)
            /\ SubSeq(out, j, j + Len(Head(gaps)) - 1) = Head(gaps)
            /\ FitsFrom(out, j + Len(Head(gaps)), Tail(gaps))

\* out is c changed inside the spans only.
ChangedInsideOnly(c, out, spans) ==
    LET gaps == Gaps(c, 1, spans) IN
    /\ Len(Head(gaps)) <= Len(out)
    /\ SubSeq(out, 1, Len(Head(gaps))) = Head(gaps)
    /\ FitsFrom(out, Len(Head(gaps)) + 1, Tail(gaps))

\* C7 (as claimed): the content written with all results differs from the
\* input only inside the spans of the extracted fragments.
C7_ReplacementFrame ==
    step = "replaced" /\ written.ok =>
        ChangedInsideOnly(doc, written.content, KeptSpans(DocMatches))

\* The positions where content c holds an element of the tag and text of
\* scalar result r: <tag>, whitespace, the text, whitespace, </tag>.
ElementsOf(c, r) ==
    {i \in 1..Len(c) :
        WrappedEnd(c, i, OpenTok(r.tag), r.original, CloseTok(r.tag)) # 0}

\* The element a scalar result puts in.
NewElement(r) == <<OpenTok(r.tag)>> \o r.translated \o <<CloseTok(r.tag)>>

NewElementsOf(c, r) == {i \in 1..Len(c) : LitEnd(c, i, NewElement(r)) # 0}

\* The matches of the document that a scalar result names: same tag, same
\* text, closed by the tag as the result spells it.
NamedBy(r) ==
    {a \in 1..Len(DocMatches) :
        /\ DocMatches[a].context = None
        /\ DocMatches[a].tag = r.tag
        /\ DocMatches[a].text = r.original
        /\ doc[DocMatches[a].to] = CloseTok(r.tag)}

\* One scalar result was applied to a document with two or more elements of
\* its tag and text.
OneScalarResultManyElements ==
    /\ step = "replaced_one"
    /\ results[1].context = None
    /\ Cardinality(NamedBy(results[1])) >= 2

ElementSpans(c, r) ==
    LET RECURSIVE From(_)
        From(i) ==
            IF i > Len(c) THEN <<>>
            ELSE IF i \in ElementsOf(c, r)
                 THEN <<[from |-> i,
                         to |-> WrappedEnd(c, i, OpenTok(r.tag), r.original,
                                           CloseTok(r.tag))]>>
                      \o From(WrappedEnd(c, i, OpenTok(r.tag), r.original,
                                         CloseTok(r.tag)) + 1)
                 ELSE From(i + 1)
    IN  From(1)

C9_OneStreamPerClient ==
    \A i \in Clients : Cardinality({f \in Files : InCall(<<f, i>>)}) <= 1

\* C10 (as claimed): when the run has ended, total is the number of
\* log_translation calls that reached the counter update, and
\* total = success + failed.
C10_AtomicStatistics ==
    mainPc = "done" =>
        /\ translation_stats.total = logCalls
        /\ translation_stats.total =
              translation_stats.success + translation_stats.failed

\* The files whose worker reached log_translation: every file but the ones
\* returned from at lines 270-272.
LoggingFiles == {f \in Files : file[f].outcome # "skipped"}

\* The results that carry a fragment translate_text raised for: one per
\* shard that raised (the exception ends the shard's loop).
RaisedFragments == {s \in AllShards : shard[s].raised}

\* C11 (as claimed): when the run has ended, every fragment translate_text
\* raised for is counted under failed and not under success.  Stated for the
\* runs in which one file only reached log_translation, so that no
\* increment of the counters can have been lost to another worker.
C11_FailedFragmentCounted ==
    mainPc = "done" /\ Cardinality(LoggingFiles) <= 1 =>
        /\ translation_stats.failed >= Cardinality(RaisedFragments)
        /\ translation_stats.success <=
              translation_stats.total - Cardinality(RaisedFragments)

\* C12 (as claimed): a key mapped to a value in a translator's dict is never
\* removed and never mapped to another value.
C12_FirstWriterWins ==
    [][\A i \in Clients : \A key \in DOMAIN cache[i] :
          /\ key \in DOMAIN cache'[i]
          /\ cache'[i][key] = cache[i][key]]_vars

\* The results whose translation re accepts as a replacement template.
UsableResults(rs) == SelectSeq(rs, LAMBDA r : ~BadTemplate(r.translated))

\* C13 (as claimed): whatever results fail to substitute, the file is
\* written, with the substitutions of all the other results.
C13_ReplacementErrorsContained ==
    step = "replaced" =>
        /\ written.ok
        /\ written.content =
              replace_translated_content(doc, UsableResults(results)).content

\* The fragments fs occur in content c in this order, from position i on:
\* each is what the pattern matches at a position after the previous one.
RECURSIVE InSourceOrder(_, _, _)
InSourceOrder(fs, c, i) ==
    IF fs = <<>> THEN TRUE
    ELSE \E j \in i..Len(c) :
            /\ MatchAt(c, j).end # 0
            /\ Fragment(MatchAt(c, j)) = Head(fs)
            /\ InSourceOrder(Tail(fs), c, MatchAt(c, j).end + 1)

\* A text of two characters or more, without a Chinese character and without
\* a reserved keyword.
Translatable(text) ==
    /\ TextLen(text) >= 2
    /\ \A j \in 1..Len(text) :
          /\ text[j] \notin ChineseWords \cup {LabelEcho, StrayTag}
          /\ \A kw \in SKIP_KEYWORDS : ~TokContains(text[j], kw)

\* C14: every fragment the extractor returns, and so every fragment of every
\* shard, has a text of length >= 2 without Chinese character and without
\* reserved keyword; the fragments are in source order.
C14_FragmentInvariant ==
    step # "read" =>
        /\ \A j \in 1..Len(frags) : Translatable(frags[j].text)
        /\ InSourceOrder(frags, doc, 1)
        /\ \A i \in DOMAIN batches : \A j \in 1..Len(batches[i]) :
              Translatable(batches[i][j].text)

\* C14 witness: a document of which two different fragments were kept and
\* sharded, and a match was filtered out.
C14_Witness ==
    /\ step = "sharded"
    /\ Len(frags) >= 2
    /\ frags[1] # frags[2]
    /\ Len(DocMatches) > Len(frags)

\* The step of file f's worker that invokes replace_translated_content
\* (line 295): from the join it ends the file, written or logged as failed.
ReplaceStep(f) ==
    /\ file[f].pc = "join"
    /\ \/ file'[f].pc = "done"
       \/ file'[f].pc = "log_rt" /\ file'[f].after = "done"

\* C15: replace_translated_content is invoked for a file only when every
\* shard submitted for it has finished, with the results of all those shards
\* (in the order they completed), and at most once: it is the first thing
\* that settles the file, and a settled file never comes back to the join
\* nor has its output changed.
C15_JoinBeforeReplace ==
    [][\A f \in Files :
          /\ ReplaceStep(f) =>
                /\ file[f].outcome = "none"
                /\ \A i \in Clients : shard[<<f, i>>].pc \in {"none", "done"}
                /\ \E order \in Orders({i \in Clients : shard[<<f, i>>].pc = "done"}) :
                      file[f].all_translations =
                         Concat([i \in Clients |-> shard[<<f, i>>].results], order)
                /\ output'[f] # output[f] =>
                      output'[f] = replace_translated_content(
                                       fileContent[f], file[f].all_translations)
          /\ file[f].outcome # "none" =>
                file'[f].pc # "join" /\ output'[f] = output[f]]_vars

\* C15 witness: a file written after two shards of it had finished.
C15_Witness ==
    \E f \in Files :
        /\ file[f].outcome = "written"
        /\ output[f].ok
        /\ \A i \in Clients : shard[<<f, i>>].pc = "done" /\ shard[<<f, i>>].collected
        /\ Len(file[f].all_translations) = 2

\* C16 (as claimed): when a translate_text call that missed the cache is
\* about to return its translation and no cache-file write has failed, the
\* cache file holds the call's key with that translation.
C16_WriteThroughBeforeReturn ==
    \A s \in AllShards :
        shard[s].pc = "ret" /\ ~saveFailed =>
            /\ CurrentKey(shard[s]) \in DOMAIN cacheFile
            /\ cacheFile[CurrentKey(shard[s])] = shard[s].translated

\* C17: an answer without text, or with a text that is empty or empty after
\* sanitization, is a failed attempt: no translator's dict holds an empty
\* value, no call on the miss path returns one, and every result of every
\* shard and every result handed to the replacement has a non-empty
\* translation (the cache loaded at startup holding no empty value).
C17_EmptyResultRetried ==
    /\ \A i \in Clients : \A key \in DOMAIN cache[i] : TextLen(cache[i][key]) > 0
    /\ \A s \in AllShards :
          /\ shard[s].pc \in {"save", "ret"} => TextLen(shard[s].translated) > 0
          /\ \A j \in 1..Len(shard[s].got) : TextLen(shard[s].got[j]) > 0
          /\ \A j \in 1..Len(shard[s].results) :
                TextLen(shard[s].results[j].translated) > 0
    /\ \A f \in Files : \A j \in 1..Len(file[f].all_translations) :
          TextLen(file[f].all_translations[j].translated) > 0

\* C17 witness: a call that returns a translation after a failed attempt,
\* and a file written with a result of a call that had a failed attempt.
C17_Witness ==
    /\ \E s \in AllShards :
          /\ shard[s].pc = "ret"
          /\ shard[s].attempt >= 1
          /\ cache[s[2]][CurrentKey(shard[s])] = shard[s].translated
    /\ \E f \in Files, i \in Clients :
          /\ file[f].outcome = "written"
          /\ shard[<<f, i>>].attempt >= 1
          /\ ~shard[<<f, i>>].raised

\* Bound: the fragments of one file in the runs checked for completion.
MaxLiveFragments == 1

LiveContents ==
    {c \in RunContents :
        \A f \in Files : Len(parse_translatable_content(c[f])) <= MaxLiveFragments}

InitFair ==
    /\ \E k \in Clients, contents \in LiveContents,
          startup \in StartupCaches : RunInit(k, contents, startup)
    /\ TextIdle
    /\ ConfigLoaded(nclients)

\* The run under fair scheduling: every request is answered and every
\* worker that can take a step takes one, so a step that is possible does
\* not wait forever.
SpecFair == InitFair /\ [][Next]_vars /\ WF_vars(Next)

\* Every file task has finished, with its output written, skipped for having
\* no fragment, or logged as failed, and main is past the file pool, at the
\* summary.
RunCompleted ==
    /\ mainPc = "done"
    /\ \A f \in Files :
          /\ file[f].pc = "done"
          /\ file[f].outcome \in {"written", "skipped", "failed"}

\* C18: under fair scheduling the run always completes, whatever calls fail.
C18_RunCompletes == <>RunCompleted

\* C18 witness: a completed run in which a shard raised after its retries,
\* one file was written and another logged as failed.
C18_Witness ==
    /\ RunCompleted
    /\ \E s \in AllShards : shard[s].raised
    /\ \E f, g \in Files : file[f].outcome = "written" /\ file[g].outcome = "failed"

\* C19 (as claimed): in a run whose configuration load_api_config accepted,
\* every translator has a non-blank key, and no shard with fragments is
\* given to a translator whose key is blank.
C19_UsableCredentials ==
    configPc = "loaded" =>
        /\ \A i \in 1..Len(api_keys) : ~Blank(api_keys[i])
        /\ step = "sharded" =>
              \A i \in DOMAIN batches : batches[i] # <<>> => ~Blank(api_keys[i])

\* Results of equal fragments (tag, text, context) carry equal translations:
\* the translation is fixed per fragment identity.
ConsistentResults ==
    \A a, b \in 1..Len(results) :
        /\ results[a].tag = results[b].tag
        /\ results[a].original = results[b].original
        /\ results[a].context = results[b].context
        => results[a].translated = results[b].translated

\* The translation the results give a fragment.
TranslationOf(fr) ==
    LET j == CHOOSE j \in 1..Len(results) :
                /\ results[j].tag = fr.tag
                /\ results[j].original = fr.text
                /\ results[j].context = fr.context
    IN  results[j].translated

\* The results of shard i under these translations.
ShardResultsOf(i) ==
    [j \in 1..Len(batches[i]) |-> Result(batches[i][j], TranslationOf(batches[i][j]))]

\* Two replacements end alike: both raise and write nothing, or both write
\* the same content.
SameOutcome(a, b) == a.ok = b.ok /\ (a.ok => a.content = b.content)

\* C20 (as claimed): with a fixed translation for each fragment, the content
\* written is the same for every order in which the shards complete.
C20_OrderIndependence ==
    step = "replaced" /\ ConsistentResults =>
        \A order \in Orders({i \in 1..nclients : batches[i] # <<>>}) :
            SameOutcome(
                replace_translated_content(
                    doc, Concat([i \in 1..nclients |-> ShardResultsOf(i)], order)),
                written)

====
